---- MODULE Spec2Model ----
(***************************************************************************)
(* Coupling control loop of laplace() in                                   *)
(* src/partitioned-heat-conduction/nutils/heat.py.                         *)
(*                                                                         *)
(* The coupling coordinator (preCICE) and the finite-element solver        *)
(* (nutils) are external.  Every answer of the coordinator is a            *)
(* nondeterministic choice; the local solve is a deterministic function of *)
(* its four inputs (res, cons, lhs0, dt) that may also raise.              *)
(* Degree-of-freedom vectors have three entries: 1 lies on the 'left'      *)
(* boundary, 2 is interior, 3 lies on the 'right' boundary.  Values are    *)
(* residues modulo Modulus, times are in hundredths.                       *)
(***************************************************************************)
EXTENDS Integers, Sequences, FiniteSets, TLC

VARIABLES
    pc,             \* position of the control flow inside laplace()
    side,           \* argument side
    project,        \* argument project
    chan,           \* life cycle of the precice.Interface object
    precice_dt,     \* last value returned by initialize() / advance()
    cons0, res0,    \* lines 135-136
    cons, res,      \* ConstraintSet and residual used by the solve
    lhs0,           \* previous-step state
    lhs,            \* newly solved state
    lhscheckpoint,  \* the Checkpoint
    dt,             \* step size of the current iteration
    exported,       \* state handed to nutils.export.vtk last
    err,            \* exception that ended the run, "" if none
    trace,          \* calls made since the last is_coupling_ongoing()
    n,              \* call counters of the whole run
    snap,           \* lhs0 and Checkpoint at the entry of the iteration
                    \* in progress
    solved,         \* boundary condition used by the most recent solve
    rej,            \* the attempt rejected by the last Decide, if it
                    \* rejected one
    fx              \* the averaging fluxdofs closure of lines 145-149:
                    \* interfaceareas and normalize it captured, its last
                    \* argument v and its last result

vars == <<pc, side, project, chan, precice_dt, cons0, res0, cons, res, lhs0,
          lhs, lhscheckpoint, dt, exported, err, trace, n, snap, solved,
          rej, fx>>

(* ---------------------------- bounds ---------------------------------- *)

\* largest number of loop iterations the coordinator allows in one run
MaxIter == 5

\* received interface values are drawn from 1..MaxRead
MaxRead == 2

\* degree-of-freedom values are residues modulo Modulus
Modulus == 5

\* uniform flux fields have the values 0..MaxFlux
MaxFlux == 3

ReadVals == 1..MaxRead

\* step sizes the coordinator may return, in hundredths:
\* one below and one above the configured step
PreciceDts == {5, 20}

Sides == {"Dirichlet", "Neumann", "bottom"}

(* -------------------------- program constants -------------------------- *)

\* timestep=.1, in hundredths
timestep == 10

\* numpy.nan marks an unconstrained entry of a ConstraintSet
NaN == -1

\* value of dt and precice_dt before their first assignment
NoDt == 0

\* a name of a vector that is not bound yet
Unbound == <<>>

Dofs == 1..3

Min(a, b) == IF a < b THEN a ELSE b

(* ------------------------- numerical stand-ins ------------------------- *)

\* the dofs whose basis functions are nonzero on the coupling interface
CouplingDofs(s) == IF s = "Dirichlet" THEN {3} ELSE {1}

\* cons of line 90: u = 0 on the 'left' boundary, all other entries NaN
InitialCons == [i \in Dofs |-> IF i = 1 THEN 0 ELSE NaN]

\* res of lines 70-74 without its lhs-dependent part: the fixed flux on 'right'
InitialRes == [i \in Dofs |-> IF i = 3 THEN 1 ELSE 0]

\* nutils.solver.optimize('lhs', (u - coupledata)^2, constrain=c):
\* entries constrained in c are kept, the coupling dofs get the received value
Optimize(s, readdata, c) ==
    [i \in Dofs |-> IF c[i] # NaN THEN c[i]
                    ELSE IF i \in CouplingDofs(s) THEN readdata
                    ELSE NaN]

\* r + couplingsampleGP.integral(ns.basis * coupledata)
AddSource(s, r, readdata) ==
    [i \in Dofs |-> IF i \in CouplingDofs(s) THEN r[i] + readdata ELSE r[i]]

RECURSIVE SumOver(_, _)
SumOver(f, S) ==
    IF S = {} THEN 0
    ELSE LET i == CHOOSE j \in S : TRUE IN f[i] + SumOver(f, S \ {i})

Constrained(c) == {i \in Dofs : c[i] # NaN}

\* dt enters the discrete system as a factor
Scale(d) == d \div 5

\* nutils.solver.solve_linear('lhs', r, constrain=c, arguments=dict(lhs0, dt)):
\* constrained entries equal their prescribed values, the free entries are a
\* fixed function of the residual, the constraints, lhs0 and dt
SolveLinear(r, c, l0, d) ==
    [i \in Dofs |->
        IF c[i] # NaN THEN c[i]
        ELSE (l0[i] + Scale(d) * (r[i] + SumOver(c, Constrained(c)) + 1))
                 % Modulus]

\* res.eval(lhs0=lhs0, lhs=lhs, dt=dt)
ResEval(r, l0, l, d) ==
    [i \in Dofs |->
        (r[i] + (l[i] + Modulus - l0[i]) * (4 \div Scale(d))) % Modulus]

\* couplinginterface.integrate(ns.basis): interface area of every dof
InterfaceAreas(s) == [i \in Dofs |-> IF i \in CouplingDofs(s) THEN 1 ELSE 0]

\* the two fluxdofs closures of lines 138-149
FluxDofs(s, p, v) ==
    IF p
    THEN [i \in Dofs |-> IF InterfaceAreas(s)[i] > 0
                         THEN v[i] \div InterfaceAreas(s)[i] ELSE 0]
    ELSE [i \in Dofs |-> IF InterfaceAreas(s)[i] > 0
                         THEN v[i] * (1 \div InterfaceAreas(s)[i]) ELSE 0]

\* couplingsampleCC.eval(field): the field on the coupling interface
EvalCC(s, field) == [i \in CouplingDofs(s) |-> field[i]]

(* ------------------------- float64 arithmetic -------------------------- *)

\* A nonzero finite float64 is sig * 2^exp, where sig is written as a
\* sequence of Precision bits, most significant first, the first one 1.
\* numpy rounds every operation to the nearest such number, ties to the one
\* with an even significand.

\* bits of a float64 significand
Precision == 53

Zero == [cls |-> "zero", sig |-> <<>>, exp |-> 0]

Inf == [cls |-> "inf", sig |-> <<>>, exp |-> 0]

NotANumber == [cls |-> "nan", sig |-> <<>>, exp |-> 0]

\* binary digits of a natural number, most significant first
RECURSIVE Bin(_)
Bin(k) == IF k = 0 THEN <<>> ELSE Append(Bin(k \div 2), k % 2)

\* the w lowest binary digits of a natural number
Bits(k, w) == [j \in 1..w |-> (k \div 2^(w - j)) % 2]

\* the number a short digit sequence writes
RECURSIVE Val(_)
Val(b) == IF b = <<>> THEN 0
          ELSE 2 * Val(SubSeq(b, 1, Len(b) - 1)) + b[Len(b)]

\* b without its leading zeros
Strip(b) ==
    IF \A k \in 1..Len(b) : b[k] = 0 THEN <<>>
    ELSE LET j == CHOOSE k \in 1..Len(b) :
                     b[k] = 1 /\ \A m \in 1..(k - 1) : b[m] = 0
         IN SubSeq(b, j, Len(b))

\* b + 1, one digit longer when b is all ones
Inc(b) ==
    IF \A k \in 1..Len(b) : b[k] = 1
    THEN <<1>> \o [k \in 1..Len(b) |-> 0]
    ELSE LET j == CHOOSE k \in 1..Len(b) :
                     b[k] = 0 /\ \A m \in (k + 1)..Len(b) : b[m] = 1
         IN [k \in 1..Len(b) |-> IF k < j THEN b[k]
                                 ELSE IF k = j THEN 1 ELSE 0]

\* b - 1, for b > 0
Dec(b) ==
    LET j == CHOOSE k \in 1..Len(b) :
                 b[k] = 1 /\ \A m \in (k + 1)..Len(b) : b[m] = 0
    IN [k \in 1..Len(b) |-> IF k < j THEN b[k]
                            ELSE IF k = j THEN 0 ELSE 1]

\* the float64 nearest to (b + t) * 2^e, ties to even, where b is a digit
\* sequence and sticky says that the discarded tail t (0 <= t < 1) is not 0
RoundBits(b0, e, sticky) ==
    LET b == Strip(b0)
        L == Len(b)
    IN IF L = 0 THEN Zero
       ELSE IF L <= Precision
       THEN [cls |-> "num",
             sig |-> b \o [k \in 1..(Precision - L) |-> 0],
             exp |-> e - (Precision - L)]
       ELSE LET head  == SubSeq(b, 1, Precision)
                guard == b[Precision + 1]
                st    == sticky \/ \E k \in (Precision + 2)..L : b[k] = 1
                up    == guard = 1 /\ (st \/ head[Precision] = 1)
                r     == IF up THEN Inc(head) ELSE head
            IN [cls |-> "num",
                sig |-> SubSeq(r, 1, Precision),
                exp |-> e + (L - Precision)
                          + (IF Len(r) > Precision THEN 1 ELSE 0)]

\* a small natural number as a float64, exact
FromInt(k) == RoundBits(Bin(k), 0, FALSE)

\* digits after the binary point carried by a long division
FracBits == Precision + 16

\* 2^k modulo a
RECURSIVE PowMod(_, _)
PowMod(k, a) ==
    IF k = 0 THEN 1 % a
    ELSE LET h == PowMod(k \div 2, a)
         IN (h * h * (IF k % 2 = 1 THEN 2 ELSE 1)) % a

\* k digits of r / a after the binary point, for r < a, and the remainder:
\* long division, whose remainder after j digits is r * 2^j modulo a
FracDiv(r, a, k) ==
    [bits |-> [j \in 1..k |-> (2 * ((r * PowMod(j - 1, a)) % a)) \div a],
     rem  |-> (r * PowMod(k, a)) % a]

\* numpy's x / a for float64 values that are small natural numbers
FlDiv(x, a) ==
    IF a = 0 THEN (IF x = 0 THEN NotANumber ELSE Inf)
    ELSE LET f == FracDiv(x % a, a, FracBits)
         IN RoundBits(Bin(x \div a) \o f.bits, 0 - FracBits, f.rem # 0)

\* digits multiplied in one step of a long multiplication
Chunk == 13

\* digits of b * x + carry for a digit sequence b and natural numbers x
\* and carry, Chunk digits of b at a time from the right
RECURSIVE MulCarry(_, _, _)
MulCarry(b, x, carry) ==
    IF b = <<>> THEN Bin(carry)
    ELSE LET w == Min(Chunk, Len(b))
             t == Val(SubSeq(b, Len(b) - w + 1, Len(b))) * x + carry
         IN MulCarry(SubSeq(b, 1, Len(b) - w), x, t \div 2^w)
                \o Bits(t % 2^w, w)

\* numpy's x * f for a float64 x that is a small natural number
FlMul(x, f) ==
    CASE f.cls = "nan"  -> NotANumber
      [] f.cls = "inf"  -> IF x = 0 THEN NotANumber ELSE Inf
      [] f.cls = "zero" -> Zero
      [] OTHER -> IF x = 0 THEN Zero
                  ELSE RoundBits(MulCarry(f.sig, x, 0),
                                 f.exp, FALSE)

\* the next float64 above and below a finite nonzero one
Succ(f) ==
    LET r == Inc(f.sig)
    IN [cls |-> "num", sig |-> SubSeq(r, 1, Precision),
        exp |-> f.exp + (IF Len(r) > Precision THEN 1 ELSE 0)]

Pred(f) ==
    LET r == Dec(f.sig)
    IN IF r[1] = 1 THEN [cls |-> "num", sig |-> r, exp |-> f.exp]
       ELSE [cls |-> "num", sig |-> [k \in 1..Precision |-> 1],
             exp |-> f.exp - 1]

(* --------------------- area-weighted averaging ------------------------- *)

\* the reciprocal taken of every entry, zero areas included
NormalizeUnguarded(interfaceareas) ==
    [i \in Dofs |-> FlDiv(1, interfaceareas[i])]

\* lines 146-147: zeros, and 1 / area where the area is positive
Normalize(interfaceareas) ==
    [i \in Dofs |-> IF interfaceareas[i] > 0
                    THEN FlDiv(1, interfaceareas[i])
                    ELSE Zero]

\* the input returned as it came
FluxDofsUnscaled(normalize, v) == [i \in Dofs |-> FromInt(v[i])]

\* line 148: def fluxdofs(v): return v * normalize
FluxDofsAverage(normalize, v) == [i \in Dofs |-> FlMul(v[i], normalize[i])]

\* fx before the closure exists
NoFx == [interfaceareas |-> Unbound, normalize |-> Unbound,
         v |-> Unbound, out |-> Unbound]

\* lines 145-148: the areas, their reciprocals and the closure over them
BuildFluxDofs(interfaceareas) ==
    [interfaceareas |-> interfaceareas,
     normalize |-> Normalize(interfaceareas),
     v |-> Unbound, out |-> Unbound]

\* one call fluxdofs(v) of the closure f
CallFluxDofs(f, v) ==
    [f EXCEPT !.v = v, !.out = FluxDofsAverage(f.normalize, v)]

(* --------------------------- role dispatch ----------------------------- *)

\* the two quantity names exchanged
WriteDataSwapped(s) == IF s = "Neumann" THEN "Flux" ELSE "Temperature"

\* line 111
WriteData(s) == IF s = "Neumann" THEN "Temperature" ELSE "Flux"

\* line 112
ReadData(s) == IF s = "Neumann" THEN "Flux" ELSE "Temperature"

\* what write_block_scalar_data receives: the data id of line 114, which
\* names the quantity, and the values
Buffer(q, v) == [data |-> q, values |-> v]

(* ------------------------------ the trace ------------------------------ *)

Ev(o, a, r) == [op |-> o, arg |-> a, ret |-> r]

B(b) == IF b THEN 1 ELSE 0

HasOp(t, o) == \E k \in 1..Len(t) : t[k].op = o

EvOf(t, o) == t[CHOOSE k \in 1..Len(t) : t[k].op = o]

\* position of a call in the loop body as the source lists it
Rank(o) ==
    CASE o = "is_coupling_ongoing"     -> 0
      [] o = "is_read_data_available"  -> 1
      [] o = "read_block_scalar_data"  -> 2
      [] o = "is_write_checkpoint"     -> 3
      [] o = "save"                    -> 4
      [] o = "ack_write_checkpoint"    -> 5
      [] o = "solve"                   -> 6
      [] o = "is_write_data_required"  -> 7
      [] o = "write_block_scalar_data" -> 8
      [] o = "advance"                 -> 9
      [] o = "is_read_checkpoint"      -> 10
      [] o = "ack_read_checkpoint"     -> 11
      [] o = "restore"                 -> 12
      [] o = "commit"                  -> 12
      [] o = "finalize"                -> 13
      [] OTHER                         -> 14

(* ---------------------------- control flow ----------------------------- *)

\* ghost values outside an iteration, and after a commit
NoSnap == [lhs0 |-> Unbound, ckpt |-> Unbound]

NoAttempt == [rejected |-> FALSE, saved |-> FALSE, lhs0 |-> Unbound,
              dt |-> NoDt, cons |-> Unbound, res |-> Unbound,
              lhs |-> Unbound]

\* the advance moved in front of the write
NextPcAdvanceFirst(p) ==
    CASE p = "loop"    -> "read"
      [] p = "read"    -> "ckpt"
      [] p = "ckpt"    -> "solve"
      [] p = "solve"   -> "advance"
      [] p = "advance" -> "write"
      [] p = "write"   -> "decide"
      [] p = "decide"  -> "loop"

\* the statement order of the loop body, lines 153-204
NextPc(p) ==
    CASE p = "loop"    -> "read"
      [] p = "read"    -> "ckpt"
      [] p = "ckpt"    -> "solve"
      [] p = "solve"   -> "write"
      [] p = "write"   -> "advance"
      [] p = "advance" -> "decide"
      [] p = "decide"  -> "loop"

Init ==
    /\ pc = "start"
    /\ side \in Sides
    /\ project \in BOOLEAN
    /\ chan = "none"
    /\ precice_dt = NoDt
    /\ cons0 = Unbound /\ res0 = Unbound
    /\ cons = Unbound /\ res = Unbound
    /\ lhs0 = Unbound /\ lhs = Unbound /\ lhscheckpoint = Unbound
    /\ dt = NoDt
    /\ exported = Unbound
    /\ err = ""
    /\ fx = NoFx
    /\ trace = <<>>
    /\ n = [iter |-> 0, solve |-> 0, advance |-> 0, commit |-> 0,
            restore |-> 0, finalize |-> 0]
    /\ snap = NoSnap
    /\ solved = [cons |-> Unbound, res |-> Unbound]
    /\ rej = NoAttempt

\* the side checked only after the channel was created and initialized
SetupChecksLate ==
    /\ pc = "start"
    /\ \E p \in PreciceDts :
         /\ precice_dt' = p
         /\ trace' = <<Ev("initialize", 0, p)>>
    /\ chan' = "initialized"
    /\ cons' = InitialCons /\ cons0' = InitialCons
    /\ res' = InitialRes /\ res0' = InitialRes
    /\ lhs0' = [i \in Dofs |-> 0]
    /\ solved' = [cons |-> InitialCons, res |-> InitialRes]
    /\ fx' = IF project THEN fx ELSE BuildFluxDofs(InterfaceAreas(side))
    /\ IF side \notin {"Neumann", "Dirichlet"}
       THEN pc' = "raised" /\ err' = "invalid side"
       ELSE pc' = "loop" /\ err' = err
    /\ UNCHANGED <<side, project, lhs, lhscheckpoint, dt, exported, n, snap,
                   rej>>

\* lines 36-151: side check, problem setup, channel creation, initialize()
Setup ==
    /\ pc = "start"
    /\ IF side \notin {"Neumann", "Dirichlet"}
       THEN /\ pc' = "raised"
            /\ err' = "invalid side"
            /\ UNCHANGED <<chan, precice_dt, cons0, res0, cons, res, lhs0,
                           trace, solved, fx>>
       ELSE /\ \E p \in PreciceDts :
                 /\ precice_dt' = p
                 /\ trace' = <<Ev("initialize", 0, p)>>
            /\ chan' = "initialized"
            /\ cons' = InitialCons /\ cons0' = InitialCons
            /\ res' = InitialRes /\ res0' = InitialRes
            /\ lhs0' = [i \in Dofs |-> 0]
            /\ solved' = [cons |-> InitialCons, res |-> InitialRes]
            /\ fx' = IF project THEN fx
                     ELSE BuildFluxDofs(InterfaceAreas(side))
            /\ pc' = "loop"
            /\ err' = err
    /\ UNCHANGED <<side, project, lhs, lhscheckpoint, dt, exported, n, snap,
                   rej>>

\* the body run once before the first test counts
LoopTestBodyFirst ==
    /\ pc = "loop"
    /\ \E ongoing \in BOOLEAN :
         /\ ongoing => n.iter < MaxIter
         /\ trace' = <<Ev("is_coupling_ongoing", 0, B(ongoing))>>
         /\ IF ongoing \/ n.iter = 0
            THEN /\ pc' = NextPc("loop")
                 /\ n' = [n EXCEPT !.iter = @ + 1]
                 /\ snap' = [lhs0 |-> lhs0, ckpt |-> lhscheckpoint]
            ELSE /\ pc' = "finalize"
                 /\ UNCHANGED <<n, snap>>
    /\ UNCHANGED <<fx, side, project, chan, precice_dt, cons0, res0, cons, res,
                   lhs0, lhs, lhscheckpoint, dt, exported, err, solved, rej>>

\* line 153: while interface.is_coupling_ongoing()
LoopTest ==
    /\ pc = "loop"
    /\ \E ongoing \in BOOLEAN :
         /\ ongoing => n.iter < MaxIter
         /\ trace' = <<Ev("is_coupling_ongoing", 0, B(ongoing))>>
         /\ IF ongoing
            THEN /\ pc' = NextPc("loop")
                 /\ n' = [n EXCEPT !.iter = @ + 1]
                 /\ snap' = [lhs0 |-> lhs0, ckpt |-> lhscheckpoint]
            ELSE /\ pc' = "finalize"
                 /\ UNCHANGED <<n, snap>>
    /\ UNCHANGED <<fx, side, project, chan, precice_dt, cons0, res0, cons, res,
                   lhs0, lhs, lhscheckpoint, dt, exported, err, solved, rej>>

\* the boundary condition reset when no data arrived
AwaitReadResets ==
    /\ pc = "read"
    /\ \E avail \in BOOLEAN :
         IF avail
         THEN \E readdata \in ReadVals :
                /\ trace' = trace \o
                       <<Ev("is_read_data_available", 0, 1),
                         Ev("read_block_scalar_data", ReadData(side),
                            readdata)>>
                /\ IF side = "Dirichlet"
                   THEN /\ cons' = Optimize(side, readdata, cons0)
                        /\ res' = res
                   ELSE /\ res' = AddSource(side, res0, readdata)
                        /\ cons' = cons
         ELSE /\ trace' = Append(trace, Ev("is_read_data_available", 0, 0))
              /\ cons' = cons0
              /\ res' = res0
    /\ pc' = NextPc("read")
    /\ UNCHANGED <<fx, side, project, chan, precice_dt, cons0, res0, lhs0, lhs,
                   lhscheckpoint, dt, exported, err, n, snap, solved, rej>>

\* new data folded into the current boundary condition, not the initial one
AwaitReadAccumulates ==
    /\ pc = "read"
    /\ \E avail \in BOOLEAN :
         IF avail
         THEN \E readdata \in ReadVals :
                /\ trace' = trace \o
                       <<Ev("is_read_data_available", 0, 1),
                         Ev("read_block_scalar_data", ReadData(side),
                            readdata)>>
                /\ IF side = "Dirichlet"
                   THEN /\ cons' = Optimize(side, readdata, cons)
                        /\ res' = res
                   ELSE /\ res' = AddSource(side, res, readdata)
                        /\ cons' = cons
         ELSE /\ trace' = Append(trace, Ev("is_read_data_available", 0, 0))
              /\ UNCHANGED <<cons, res>>
    /\ pc' = NextPc("read")
    /\ UNCHANGED <<fx, side, project, chan, precice_dt, cons0, res0, lhs0, lhs,
                   lhscheckpoint, dt, exported, err, n, snap, solved, rej>>

\* lines 155-166
AwaitRead ==
    /\ pc = "read"
    /\ \E avail \in BOOLEAN :
         IF avail
         THEN \E readdata \in ReadVals :
                /\ trace' = trace \o
                       <<Ev("is_read_data_available", 0, 1),
                         Ev("read_block_scalar_data", ReadData(side),
                            readdata)>>
                /\ IF side = "Dirichlet"
                   THEN /\ cons' = Optimize(side, readdata, cons0)
                        /\ res' = res
                   ELSE /\ res' = AddSource(side, res0, readdata)
                        /\ cons' = cons
         ELSE /\ trace' = Append(trace, Ev("is_read_data_available", 0, 0))
              /\ UNCHANGED <<cons, res>>
    /\ pc' = NextPc("read")
    /\ UNCHANGED <<fx, side, project, chan, precice_dt, cons0, res0, lhs0, lhs,
                   lhscheckpoint, dt, exported, err, n, snap, solved, rej>>

\* the checkpoint taken from the solved state instead of the previous one
MaybeCheckpointSavesLhs ==
    /\ pc = "ckpt"
    /\ \E required \in BOOLEAN :
         IF required
         THEN /\ lhscheckpoint' = lhs
              /\ exported' = lhs0
              /\ trace' = trace \o
                     <<Ev("is_write_checkpoint", 0, 1),
                       Ev("save", 0, 0),
                       Ev("ack_write_checkpoint", 0, 0)>>
         ELSE /\ trace' = Append(trace, Ev("is_write_checkpoint", 0, 0))
              /\ UNCHANGED <<lhscheckpoint, exported>>
    /\ pc' = NextPc("ckpt")
    /\ UNCHANGED <<fx, side, project, chan, precice_dt, cons0, res0, cons, res,
                   lhs0, lhs, dt, err, n, snap, solved, rej>>

\* lines 168-177
MaybeCheckpoint ==
    /\ pc = "ckpt"
    /\ \E required \in BOOLEAN :
         IF required
         THEN /\ lhscheckpoint' = lhs0
              /\ exported' = lhs0
              /\ trace' = trace \o
                     <<Ev("is_write_checkpoint", 0, 1),
                       Ev("save", 0, 0),
                       Ev("ack_write_checkpoint", 0, 0)>>
         ELSE /\ trace' = Append(trace, Ev("is_write_checkpoint", 0, 0))
              /\ UNCHANGED <<lhscheckpoint, exported>>
    /\ pc' = NextPc("ckpt")
    /\ UNCHANGED <<fx, side, project, chan, precice_dt, cons0, res0, cons, res,
                   lhs0, lhs, dt, err, n, snap, solved, rej>>

\* the coordinator's admissible step ignored
StepSizeConfigured(configured, admissible) == configured

\* line 179
StepSize(configured, admissible) == Min(configured, admissible)

\* the failure of the solve caught and the iteration continued
SolveSwallowsFailure ==
    /\ pc = "solve"
    /\ dt' = StepSize(timestep, precice_dt)
    /\ \E fails \in BOOLEAN :
         IF fails
         THEN /\ pc' = NextPc("solve")
              /\ err' = "SolverDivergence"
              /\ trace' = Append(trace, Ev("solve", dt', 0))
              /\ UNCHANGED <<lhs, solved>>
         ELSE /\ lhs' = SolveLinear(res, cons, lhs0, dt')
              /\ solved' = [cons |-> cons, res |-> res]
              /\ trace' = Append(trace, Ev("solve", dt', 1))
              /\ pc' = NextPc("solve")
              /\ err' = err
    /\ n' = [n EXCEPT !.solve = @ + 1]
    /\ UNCHANGED <<fx, side, project, chan, precice_dt, cons0, res0, cons, res,
                   lhs0, lhscheckpoint, exported, snap, rej>>

\* lines 179-182: the step size and the local solve
Solve ==
    /\ pc = "solve"
    /\ dt' = StepSize(timestep, precice_dt)
    /\ \E fails \in BOOLEAN :
         IF fails
         THEN /\ pc' = "raised"
              /\ err' = "SolverDivergence"
              /\ trace' = Append(trace, Ev("solve", dt', 0))
              /\ UNCHANGED <<lhs, solved>>
         ELSE /\ lhs' = SolveLinear(res, cons, lhs0, dt')
              /\ solved' = [cons |-> cons, res |-> res]
              /\ trace' = Append(trace, Ev("solve", dt', 1))
              /\ pc' = NextPc("solve")
              /\ err' = err
    /\ n' = [n EXCEPT !.solve = @ + 1]
    /\ UNCHANGED <<fx, side, project, chan, precice_dt, cons0, res0, cons, res,
                   lhs0, lhscheckpoint, exported, snap, rej>>

\* the write made whatever the channel answered
MaybeWriteAlways ==
    /\ pc = "write"
    /\ \E required \in BOOLEAN :
         /\ IF required
            THEN LET writedata ==
                       IF side = "Dirichlet"
                       THEN EvalCC(side, FluxDofs(side, project,
                                       ResEval(res, lhs0, lhs, dt)))
                       ELSE EvalCC(side, lhs)
                 IN trace' = trace \o
                        <<Ev("is_write_data_required", dt, 1),
                          Ev("write_block_scalar_data",
                             Buffer(WriteData(side), writedata), 0)>>
            ELSE trace' = trace \o
                        <<Ev("is_write_data_required", dt, 0),
                          Ev("write_block_scalar_data",
                             Buffer(WriteData(side), EvalCC(side, lhs)), 0)>>
         /\ fx' = IF required /\ side = "Dirichlet" /\ ~project
                  THEN CallFluxDofs(fx, ResEval(res, lhs0, lhs, dt))
                  ELSE fx
    /\ pc' = NextPc("write")
    /\ UNCHANGED <<side, project, chan, precice_dt, cons0, res0, cons, res,
                   lhs0, lhs, lhscheckpoint, dt, exported, err, n, snap,
                   solved, rej>>

\* lines 184-194
MaybeWrite ==
    /\ pc = "write"
    /\ \E required \in BOOLEAN :
         /\ IF required
            THEN LET writedata ==
                       IF side = "Dirichlet"
                       THEN EvalCC(side, FluxDofs(side, project,
                                       ResEval(res, lhs0, lhs, dt)))
                       ELSE EvalCC(side, lhs)
                 IN trace' = trace \o
                        <<Ev("is_write_data_required", dt, 1),
                          Ev("write_block_scalar_data",
                             Buffer(WriteData(side), writedata), 0)>>
            ELSE trace' = Append(trace, Ev("is_write_data_required", dt, 0))
         /\ fx' = IF required /\ side = "Dirichlet" /\ ~project
                  THEN CallFluxDofs(fx, ResEval(res, lhs0, lhs, dt))
                  ELSE fx
    /\ pc' = NextPc("write")
    /\ UNCHANGED <<side, project, chan, precice_dt, cons0, res0, cons, res,
                   lhs0, lhs, lhscheckpoint, dt, exported, err, n, snap,
                   solved, rej>>

\* line 196: precice_dt = interface.advance(dt)
Advance ==
    /\ pc = "advance"
    /\ \E p \in PreciceDts :
         /\ precice_dt' = p
         /\ trace' = Append(trace, Ev("advance", dt, p))
    /\ n' = [n EXCEPT !.advance = @ + 1]
    /\ pc' = NextPc("advance")
    /\ UNCHANGED <<fx, side, project, chan, cons0, res0, cons, res, lhs0, lhs,
                   lhscheckpoint, dt, exported, err, snap, solved, rej>>

\* the rollback branch that keeps the newly solved state
DecidedNeverRestores(required, checkpoint, new) == new

\* the two branches exchanged
DecidedSwapped(required, checkpoint, new) ==
    IF required THEN new ELSE checkpoint

\* lines 198-204: the value lhs0 gets
Decided(required, checkpoint, new) ==
    IF required THEN checkpoint ELSE new

\* the Checkpoint moved forward at every commit
DecideMovesCheckpoint ==
    /\ pc = "decide"
    /\ \E required \in BOOLEAN :
         IF required
         THEN IF lhscheckpoint = Unbound
              THEN \* line 201 reads a name that was never bound
                   /\ trace' = trace \o
                          <<Ev("is_read_checkpoint", 0, 1),
                            Ev("ack_read_checkpoint", 0, 0)>>
                   /\ pc' = "raised"
                   /\ err' = "UnboundLocalError"
                   /\ UNCHANGED <<lhs0, n, snap, rej, lhscheckpoint>>
              ELSE /\ trace' = trace \o
                          <<Ev("is_read_checkpoint", 0, 1),
                            Ev("ack_read_checkpoint", 0, 0),
                            Ev("restore", 0, 0)>>
                   /\ lhs0' = Decided(TRUE, lhscheckpoint, lhs)
                   /\ UNCHANGED lhscheckpoint
                   /\ n' = [n EXCEPT !.restore = @ + 1]
                   /\ rej' = [rejected |-> TRUE,
                              saved |-> HasOp(trace, "save"),
                              lhs0 |-> lhs0, dt |-> dt, cons |-> cons,
                              res |-> res, lhs |-> lhs]
                   /\ snap' = NoSnap
                   /\ pc' = NextPc("decide")
                   /\ err' = err
         ELSE /\ trace' = trace \o
                     <<Ev("is_read_checkpoint", 0, 0), Ev("commit", 0, 0)>>
              /\ lhs0' = Decided(FALSE, lhscheckpoint, lhs)
              /\ lhscheckpoint' = lhs
              /\ n' = [n EXCEPT !.commit = @ + 1]
              /\ rej' = NoAttempt
              /\ snap' = NoSnap
              /\ pc' = NextPc("decide")
              /\ err' = err
    /\ UNCHANGED <<fx, side, project, chan, precice_dt, cons0, res0, cons, res,
                   lhs, dt, exported, solved>>

\* lines 198-204: restore the Checkpoint or commit the new state
Decide ==
    /\ pc = "decide"
    /\ \E required \in BOOLEAN :
         IF required
         THEN IF lhscheckpoint = Unbound
              THEN \* line 201 reads a name that was never bound
                   /\ trace' = trace \o
                          <<Ev("is_read_checkpoint", 0, 1),
                            Ev("ack_read_checkpoint", 0, 0)>>
                   /\ pc' = "raised"
                   /\ err' = "UnboundLocalError"
                   /\ UNCHANGED <<lhs0, n, snap, rej>>
              ELSE /\ trace' = trace \o
                          <<Ev("is_read_checkpoint", 0, 1),
                            Ev("ack_read_checkpoint", 0, 0),
                            Ev("restore", 0, 0)>>
                   /\ lhs0' = Decided(TRUE, lhscheckpoint, lhs)
                   /\ n' = [n EXCEPT !.restore = @ + 1]
                   /\ rej' = [rejected |-> TRUE,
                              saved |-> HasOp(trace, "save"),
                              lhs0 |-> lhs0, dt |-> dt, cons |-> cons,
                              res |-> res, lhs |-> lhs]
                   /\ snap' = NoSnap
                   /\ pc' = NextPc("decide")
                   /\ err' = err
         ELSE /\ trace' = trace \o
                     <<Ev("is_read_checkpoint", 0, 0), Ev("commit", 0, 0)>>
              /\ lhs0' = Decided(FALSE, lhscheckpoint, lhs)
              /\ n' = [n EXCEPT !.commit = @ + 1]
              /\ rej' = NoAttempt
              /\ snap' = NoSnap
              /\ pc' = NextPc("decide")
              /\ err' = err
    /\ UNCHANGED <<fx, side, project, chan, precice_dt, cons0, res0, cons, res,
                   lhs, lhscheckpoint, dt, exported, solved>>

\* line 206: interface.finalize()
Finalize ==
    /\ pc = "finalize"
    /\ chan' = "finalized"
    /\ n' = [n EXCEPT !.finalize = @ + 1]
    /\ trace' = Append(trace, Ev("finalize", 0, 0))
    /\ pc' = "finalized"
    /\ UNCHANGED <<fx, side, project, precice_dt, cons0, res0, cons, res, lhs0,
                   lhs, lhscheckpoint, dt, exported, err, snap, solved, rej>>

\* lines 218-222: the error norm of lhs and the return
Return ==
    /\ pc = "finalized"
    /\ IF lhs = Unbound
       THEN pc' = "raised" /\ err' = "UnboundLocalError"
       ELSE pc' = "returned" /\ err' = err
    /\ UNCHANGED <<fx, side, project, chan, precice_dt, cons0, res0, cons, res,
                   lhs0, lhs, lhscheckpoint, dt, exported, trace, n, snap,
                   solved, rej>>

Next ==
    \/ Setup
    \/ LoopTest
    \/ AwaitRead
    \/ MaybeCheckpoint
    \/ Solve
    \/ MaybeWrite
    \/ Advance
    \/ Decide
    \/ Finalize
    \/ Return

Spec == Init /\ [][Next]_vars

\* the program is sequential and every call into the channel returns
LiveSpec == Init /\ [][Next]_vars /\ WF_vars(Next)

(* ------------------ the averaging closure on its own ------------------- *)

\* interface areas of a dof: none, a power of two, one whose reciprocal is
\* rounded, and the smallest natural number a with a * (1 / a) # 1 in float64
AreaVals == {0, 2, 3, 49}

\* entries of the vectors handed to fluxdofs
FluxVals == {c * a : c \in 0..MaxFlux, a \in AreaVals}

\* the vectors handed to fluxdofs: the nodal contributions c * area of a
\* uniform flux field c, and the constant vectors
FluxInputs(interfaceareas) ==
    {[i \in Dofs |-> c * interfaceareas[i]] : c \in 0..MaxFlux}
        \cup {[i \in Dofs |-> x] : x \in FluxVals}

\* lines 145-148 with project=False: the closure is built once
ProjInit ==
    /\ pc = "fluxdofs"
    /\ side = "Dirichlet"
    /\ project = FALSE
    /\ \E interfaceareas \in [Dofs -> AreaVals] :
         fx = BuildFluxDofs(interfaceareas)
    /\ chan = "none"
    /\ precice_dt = NoDt
    /\ cons0 = Unbound /\ res0 = Unbound
    /\ cons = Unbound /\ res = Unbound
    /\ lhs0 = Unbound /\ lhs = Unbound /\ lhscheckpoint = Unbound
    /\ dt = NoDt
    /\ exported = Unbound
    /\ err = ""
    /\ trace = <<>>
    /\ n = [iter |-> 0, solve |-> 0, advance |-> 0, commit |-> 0,
            restore |-> 0, finalize |-> 0]
    /\ snap = NoSnap
    /\ solved = [cons |-> Unbound, res |-> Unbound]
    /\ rej = NoAttempt

\* one call fluxdofs(v), line 188
ApplyFluxDofs ==
    /\ pc = "fluxdofs"
    /\ \E v \in FluxInputs(fx.interfaceareas) : fx' = CallFluxDofs(fx, v)
    /\ UNCHANGED <<pc, side, project, chan, precice_dt, cons0, res0, cons,
                   res, lhs0, lhs, lhscheckpoint, dt, exported, err, trace,
                   n, snap, solved, rej>>

ProjNext == ApplyFluxDofs

ProjSpec == ProjInit /\ [][ProjNext]_vars

TypeOK ==
    /\ pc \in {"start", "loop", "read", "ckpt", "solve", "write", "advance",
               "decide", "finalize", "finalized", "returned", "raised"}
    /\ n.iter <= MaxIter

(* ------------------------- reading the trace --------------------------- *)

Pos(t, o) == CHOOSE k \in 1..Len(t) : t[k].op = o

Ordered(t) ==
    \A i, j \in 1..Len(t) : i < j => Rank(t[i].op) < Rank(t[j].op)

\* the answer the channel gave to a query of the current iteration
Answered(o, r) == HasOp(trace, o) /\ EvOf(trace, o).ret = r

\* between the loop test and the Decide step of one iteration
InIteration == pc \in {"read", "ckpt", "solve", "write", "advance", "decide"}

\* the local solve of the current iteration has returned
Solved == Answered("solve", 1)

(* ------------------------------- C1 ------------------------------------ *)

\* C1: the calls of one loop iteration occur in the order of the source:
\* read query and read, checkpoint query, save and acknowledgement, solve,
\* write query and write, advance, restore-or-commit; a write or an advance
\* is preceded by the solve of its iteration and the restore-or-commit by
\* the advance.
C1_StepOrder ==
    /\ Ordered(trace)
    /\ HasOp(trace, "write_block_scalar_data") => Solved
    /\ HasOp(trace, "advance") =>
          Solved /\ HasOp(trace, "is_write_data_required")
    /\ (HasOp(trace, "restore") \/ HasOp(trace, "commit")) =>
          HasOp(trace, "advance")
    /\ HasOp(trace, "solve") =>
          /\ HasOp(trace, "is_read_data_available")
          /\ HasOp(trace, "is_write_checkpoint")

\* an iteration that read, saved, solved, wrote, advanced and restored
C1_Witness ==
    /\ pc = "loop"
    /\ HasOp(trace, "read_block_scalar_data")
    /\ HasOp(trace, "save")
    /\ HasOp(trace, "write_block_scalar_data")
    /\ HasOp(trace, "restore")

(* ------------------------------- C2 ------------------------------------ *)

\* C2: after the Decide step, if the channel reported the read-checkpoint
\* action as required then lhs0 is the Checkpoint and the action was
\* acknowledged, otherwise lhs0 is the newly solved lhs and no
\* read-checkpoint acknowledgement was sent.
C2_Decide ==
    HasOp(trace, "is_read_checkpoint") =>
        IF EvOf(trace, "is_read_checkpoint").ret = 1
        THEN lhs0 = lhscheckpoint /\ HasOp(trace, "ack_read_checkpoint")
        ELSE lhs0 = lhs /\ ~HasOp(trace, "ack_read_checkpoint")

(* ------------------------------- C3 ------------------------------------ *)

\* C3: from the MaybeCheckpoint step up to the Decide step of an iteration,
\* if the write-checkpoint action was required the Checkpoint is lhs0 as it
\* stood at the entry of the iteration, which is still lhs0, and the
\* acknowledgement was sent before the solve; if it was not required the
\* Checkpoint is what it was at the entry and no acknowledgement was sent.
C3_Checkpoint ==
    (snap # NoSnap /\ HasOp(trace, "is_write_checkpoint")) =>
        /\ lhs0 = snap.lhs0
        /\ IF EvOf(trace, "is_write_checkpoint").ret = 1
           THEN /\ lhscheckpoint = snap.lhs0
                /\ HasOp(trace, "ack_write_checkpoint")
                /\ HasOp(trace, "solve") =>
                      Pos(trace, "ack_write_checkpoint") < Pos(trace, "solve")
           ELSE /\ lhscheckpoint = snap.ckpt
                /\ ~HasOp(trace, "ack_write_checkpoint")
                /\ ~HasOp(trace, "save")

\* a save that replaced an older, different Checkpoint, seen after the solve
C3_Witness ==
    /\ pc = "write"
    /\ Answered("is_write_checkpoint", 1)
    /\ snap.ckpt # Unbound
    /\ snap.ckpt # lhscheckpoint
    /\ lhs # lhs0

(* ------------------------------- C4 ------------------------------------ *)

\* the solve of the iteration that follows a rollback has returned, and the
\* rejected iteration had saved the Checkpoint at its start
Retried == rej.rejected /\ rej.saved /\ pc \in {"write", "advance", "decide"}

\* C4 as stated: the retry after a rollback solves with the previous state,
\* the step size and the boundary data of the rejected attempt and obtains
\* the state the rejected attempt had obtained, which is the state a run
\* without the rollback commits.
C4_AsStated ==
    Retried =>
        /\ lhs0 = rej.lhs0
        /\ dt = rej.dt
        /\ cons = rej.cons /\ res = rej.res
        /\ lhs = rej.lhs

\* C4 amended: the retry after a rollback solves with the previous state of
\* the rejected attempt, which is the Checkpoint; if the coordinator gave the
\* retry the step size and the boundary data of the rejected attempt, the
\* retry obtains the state the rejected attempt had obtained.
C4_Recovery ==
    Retried =>
        /\ lhs0 = rej.lhs0
        /\ lhscheckpoint = rej.lhs0
        /\ (dt = rej.dt /\ cons = rej.cons /\ res = rej.res) =>
               lhs = rej.lhs

\* the one rollback of the run hit window 3, the retry had the inputs of the
\* rejected attempt and its solve moved the state
C4_Witness ==
    /\ Retried
    /\ pc = "decide"
    /\ n.commit = 2 /\ n.restore = 1
    /\ dt = rej.dt /\ cons = rej.cons /\ res = rej.res
    /\ lhs = rej.lhs
    /\ lhs # lhs0

(* ------------------------------- C5 ------------------------------------ *)

\* C5: in a run without rollback every loop iteration is one solve, one
\* advance and one commit that makes lhs0 the solved state; when the loop was
\* left the channel had reported coupling not ongoing and was finalized
\* once: five windows are five solves, five advances and five commits.
C5_NoRollback ==
    (n.restore = 0 /\ err = "") =>
        /\ (pc = "loop" /\ n.iter > 0) =>
              /\ lhs0 = lhs
              /\ n.solve = n.iter /\ n.advance = n.iter /\ n.commit = n.iter
        /\ pc \in {"finalized", "returned"} =>
              /\ n.solve = n.iter /\ n.advance = n.iter /\ n.commit = n.iter
              /\ n.iter > 0 => lhs0 = lhs
              /\ trace = <<Ev("is_coupling_ongoing", 0, 0),
                           Ev("finalize", 0, 0)>>
              /\ chan = "finalized"
              /\ n.finalize = 1

\* five windows of step 0.1, no rollback, finalized and returned
C5_Witness ==
    /\ pc = "returned"
    /\ n.iter = 5 /\ n.restore = 0
    /\ n.solve = 5 /\ n.advance = 5 /\ n.commit = 5
    /\ dt = timestep
    /\ chan = "finalized"

(* ------------------------------- C6 ------------------------------------ *)

\* C6: a read call is made only after is_read_data_available() answered
\* true in the same iteration and a write call only after
\* is_write_data_required(dt) answered true for the dt of that iteration's
\* solve; after an answer of false the call is not made.
C6_ChannelContract ==
    /\ HasOp(trace, "read_block_scalar_data") =>
          Answered("is_read_data_available", 1)
    /\ Answered("is_read_data_available", 0) =>
          ~HasOp(trace, "read_block_scalar_data")
    /\ HasOp(trace, "is_write_data_required") =>
          /\ Solved
          /\ EvOf(trace, "is_write_data_required").arg
                = EvOf(trace, "solve").arg
    /\ HasOp(trace, "write_block_scalar_data") =>
          Answered("is_write_data_required", 1)
    /\ Answered("is_write_data_required", 0) =>
          ~HasOp(trace, "write_block_scalar_data")

\* an iteration that read and wrote
C6_Witness ==
    /\ pc = "advance"
    /\ HasOp(trace, "read_block_scalar_data")
    /\ HasOp(trace, "write_block_scalar_data")

(* ------------------------------- C7 ------------------------------------ *)

C7_Args ==
    /\ HasOp(trace, "solve") =>
          /\ EvOf(trace, "solve").arg = dt
          /\ dt <= timestep
    /\ pc \in {"write", "advance"} => dt = Min(timestep, precice_dt)
    /\ HasOp(trace, "is_write_data_required") =>
          EvOf(trace, "is_write_data_required").arg = dt
    /\ HasOp(trace, "advance") =>
          /\ EvOf(trace, "advance").arg = dt
          /\ EvOf(trace, "advance").ret = precice_dt

C7_Steps ==
    /\ pc = "solve" => dt' = Min(timestep, precice_dt)
    /\ pc = "advance" =>
          /\ EvOf(trace', "advance").arg = Min(timestep, precice_dt)
          /\ EvOf(trace', "advance").arg <= precice_dt
          /\ EvOf(trace', "advance").arg <= timestep

\* C7: the step size of an iteration is min(timestep, precice_dt) with
\* precice_dt as last returned by initialize() or advance(); the solve,
\* is_write_data_required and advance of the iteration all get this value,
\* which exceeds neither the configured nor the admissible step.
C7_StepSize == [](C7_Args) /\ [][C7_Steps]_vars

\* an advance with a step the coordinator had cut below the configured one
C7_Witness ==
    /\ pc = "decide"
    /\ dt < timestep
    /\ EvOf(trace, "advance").arg = dt
    /\ precice_dt > timestep

(* ------------------------------- C8 ------------------------------------ *)

C8_Safe ==
    /\ InIteration => trace[1] = Ev("is_coupling_ongoing", 0, 1)
    /\ pc = "finalize" => trace = <<Ev("is_coupling_ongoing", 0, 0)>>
    /\ n.finalize <= 1
    /\ chan = "finalized" <=> n.finalize = 1
    /\ chan = "finalized" =>
          /\ pc \in {"finalized", "returned", "raised"}
          /\ trace = <<Ev("is_coupling_ongoing", 0, 0), Ev("finalize", 0, 0)>>

C8_Quiet ==
    chan = "finalized" =>
        UNCHANGED <<chan, trace, n, precice_dt, cons, res, lhs0, lhs,
                    lhscheckpoint, dt, exported>>

\* the part of C8 that holds: the loop body runs only after
\* is_coupling_ongoing() answered true; after it answered false finalize()
\* is called, once, and no channel call and no solve follows; once the
\* channel has reported coupling not ongoing the controller eventually is
\* Finalized.
C8_Termination ==
    /\ [](C8_Safe)
    /\ [][C8_Quiet]_vars
    /\ (pc = "finalize") ~> (chan = "finalized")

\* finalized after three iterations one of which was rolled back
C8_Witness ==
    /\ chan = "finalized"
    /\ pc = "returned"
    /\ n.iter = 3 /\ n.restore = 1 /\ n.finalize = 1

(* ------------------------------- C9 ------------------------------------ *)

\* C9: in an iteration where no read data was available, the cons and res
\* the solve is about to use are those of the most recent solve (the initial
\* ones before the first solve), and lhs0 and, up to the MaybeCheckpoint
\* step, the Checkpoint are what they were at the entry of the iteration.
C9_Reuse ==
    (pc \in {"ckpt", "solve"} /\ Answered("is_read_data_available", 0)) =>
        /\ cons = solved.cons
        /\ res = solved.res
        /\ lhs0 = snap.lhs0
        /\ pc = "ckpt" => lhscheckpoint = snap.ckpt

\* no data arrived in an iteration that follows one with data
C9_Witness ==
    /\ pc = "solve"
    /\ Answered("is_read_data_available", 0)
    /\ n.iter >= 2
    /\ (cons # cons0 \/ res # res0)

(* ------------------------------- C10 ----------------------------------- *)

Failed == err = "SolverDivergence"

\* what a failed solve leaves behind in either reading of the claim
C10_Aborted ==
    /\ pc = "raised"
    /\ trace[Len(trace)] = Ev("solve", dt, 0)
    /\ ~HasOp(trace, "write_block_scalar_data")
    /\ ~HasOp(trace, "advance")
    /\ ~HasOp(trace, "restore")
    /\ ~HasOp(trace, "commit")
    /\ n.solve = n.iter
    /\ n.advance = n.iter - 1
    /\ lhs0 = snap.lhs0

\* C10 as stated: after a failed solve the run is over, nothing was written,
\* advanced, restored or committed, and lhs0 and the Checkpoint are what
\* they were at the entry of the failed iteration.
C10_AsStated ==
    Failed => (C10_Aborted /\ lhscheckpoint = snap.ckpt)

C10_State ==
    Failed =>
        /\ C10_Aborted
        /\ lhscheckpoint =
              IF HasOp(trace, "save") THEN snap.lhs0 ELSE snap.ckpt

\* C10 amended: after a failed solve the run is over, the solve is not
\* retried, nothing is written, advanced, restored or committed and no
\* variable changes any more; lhs0 is what it was at the entry of the
\* failed iteration, and the Checkpoint is too unless the MaybeCheckpoint
\* step of that iteration, which precedes the solve, had saved lhs0.
C10_Abort == [](C10_State) /\ [][~Failed]_vars

\* a solve failed in an iteration that had replaced the Checkpoint
C10_Witness ==
    /\ Failed
    /\ HasOp(trace, "save")
    /\ snap.ckpt # Unbound
    /\ snap.ckpt # lhscheckpoint

(* ------------------------------- C11 ----------------------------------- *)

InvalidSide == side \notin {"Neumann", "Dirichlet"}

\* C11: a run with a side other than 'Dirichlet' and 'Neumann' ends at
\* startup with the invalid-side exception: the channel is never created,
\* no channel call and no solve is made, and nothing happens afterwards.
C11_State ==
    InvalidSide =>
        /\ pc \in {"start", "raised"}
        /\ pc = "raised" => err = "invalid side"
        /\ chan = "none"
        /\ trace = <<>>
        /\ precice_dt = NoDt
        /\ n.iter = 0 /\ n.solve = 0 /\ n.advance = 0 /\ n.finalize = 0
        /\ lhs = Unbound /\ lhs0 = Unbound

C11_InvalidSide == [](C11_State) /\ [][InvalidSide => pc = "start"]_vars

\* laplace's own default side has raised
C11_Witness ==
    /\ side = "bottom"
    /\ pc = "raised"
    /\ err = "invalid side"

(* ------------------------------- C13 ----------------------------------- *)

\* C13: whatever is handed to the export call is a state that was kept (the
\* Checkpoint), and when the run is Finalized after a last iteration that
\* committed, the state committed last has been handed to the export call.
C13_Exported ==
    /\ exported = lhscheckpoint
    /\ (pc \in {"finalized", "returned"} /\ n.commit > 0 /\ ~rej.rejected) =>
          exported = lhs0

(* ------------------------------- C14 ----------------------------------- *)

C14_State ==
    /\ lhscheckpoint = exported
    /\ HasOp(trace, "restore") => lhs0 = lhscheckpoint

C14_Frame ==
    /\ pc # "ckpt" => lhscheckpoint' = lhscheckpoint
    /\ (pc = "ckpt" /\ lhscheckpoint' # lhscheckpoint) =>
          /\ lhscheckpoint' = lhs0
          /\ HasOp(trace', "save")

\* C14: the Checkpoint is one value, the lhs0 of the most recent save: only
\* the MaybeCheckpoint step changes it, and only to lhs0; AwaitRead, Solve,
\* MaybeWrite, Advance and Decide leave it alone, and after a restore lhs0 is
\* that value.
C14_OneCheckpoint == [](C14_State) /\ [][C14_Frame]_vars

\* a restore in an iteration that did not save, after the state had moved on
\* from the Checkpoint by a commit
C14_Witness ==
    /\ pc = "loop"
    /\ HasOp(trace, "restore")
    /\ ~rej.saved
    /\ n.commit >= 2
    /\ rej.lhs0 # lhscheckpoint
    /\ lhs0 = lhscheckpoint

(* ------------------------------- C16 ----------------------------------- *)

\* the boundary condition that one read of the value r builds
BuiltFrom(r) ==
    IF side = "Dirichlet"
    THEN cons = Optimize(side, r, cons0) /\ res = res0
    ELSE res = AddSource(side, res0, r) /\ cons = cons0

\* C16: once the channel is initialized, cons and res are the initial ones
\* or those that a single read builds from cons0 and res0; after a read they
\* are those built from the value just read, whatever was read before.
C16_Rebuilt ==
    chan = "initialized" =>
        /\ cons0 = InitialCons /\ res0 = InitialRes
        /\ \/ cons = cons0 /\ res = res0
           \/ \E r \in ReadVals : BuiltFrom(r)
        /\ (HasOp(trace, "read_block_scalar_data") /\ InIteration) =>
              BuiltFrom(EvOf(trace, "read_block_scalar_data").ret)

\* a read that replaced the boundary condition built by a read of another
\* value, in the iteration after a rollback
C16_Witness ==
    /\ pc = "solve"
    /\ rej.rejected
    /\ HasOp(trace, "read_block_scalar_data")
    /\ (solved.cons # cons0 \/ solved.res # res0)
    /\ (solved.cons # cons \/ solved.res # res)

(* ------------------------------- C18 ----------------------------------- *)

\* the solve of the iteration that follows a rollback has returned and the
\* advance of that iteration has not
RetrySolved == rej.rejected /\ pc \in {"write", "advance"}

\* C18 as stated: the step size of the retry is the step size of the
\* rejected attempt, whatever advance() returned at the rollback.
C18_AsStated == RetrySolved => dt = rej.dt

\* C18 amended: the step size of the retry is min(timestep, p) with p the
\* value advance() returned at the rollback; it is the step size of the
\* rejected attempt if p is the admissible step the rejected attempt had, or
\* if neither of the two is below timestep.
C18_RetryStep ==
    RetrySolved =>
        /\ dt = Min(timestep, precice_dt)
        /\ (precice_dt >= timestep /\ rej.dt = timestep) => dt = rej.dt
        /\ (precice_dt < timestep /\ rej.dt = precice_dt) => dt = rej.dt

\* a retry with the step of the rejected attempt, cut by the coordinator
C18_Witness ==
    /\ RetrySolved
    /\ precice_dt < timestep
    /\ dt = rej.dt

(* ------------------------------- C19 ----------------------------------- *)

\* C19: whenever the read-checkpoint action was required in the Decide step,
\* a checkpoint save had bound lhscheckpoint before.
C19_SavedBefore ==
    Answered("is_read_checkpoint", 1) => lhscheckpoint # Unbound

(* ------------------------------- C20 ----------------------------------- *)

\* C20: when the run is Finalized lhs is bound and is the state committed
\* last, lhs0.
C20_Returned ==
    pc \in {"finalized", "returned"} => (lhs # Unbound /\ lhs = lhs0)


\* C15: role dispatch is complementary and fixed for the run. Every read of
\* the Dirichlet participant is a read of "Temperature" and every write a
\* write of "Flux" whose values are the residual of the new state passed
\* through the flux projector; every read of the Neumann participant is a
\* read of "Flux" and every write a write of "Temperature" whose values are
\* the new state lhs on the interface, unprojected; what one role writes is
\* what the other reads, and the role never changes.
C15_Roles ==
    /\ HasOp(trace, "read_block_scalar_data") =>
          EvOf(trace, "read_block_scalar_data").arg
             = (IF side = "Dirichlet" THEN "Temperature" ELSE "Flux")
    /\ (pc \in {"advance", "decide"}
            /\ HasOp(trace, "write_block_scalar_data")) =>
          LET w == EvOf(trace, "write_block_scalar_data").arg
          IN IF side = "Dirichlet"
             THEN /\ w.data = "Flux"
                  /\ w.values = EvalCC(side, FluxDofs(side, project,
                                     ResEval(res, lhs0, lhs, dt)))
             ELSE /\ w.data = "Temperature"
                  /\ w.values = EvalCC(side, lhs)
    /\ \A s, t \in {"Dirichlet", "Neumann"} :
          s # t => (WriteData(s) = ReadData(t) /\ WriteData(s) # ReadData(s))

C15_RoleDispatch == [](C15_Roles) /\ [][side' = side]_vars

\* a Dirichlet iteration that read a temperature and wrote a nonzero flux
C15_Witness ==
    /\ side = "Dirichlet"
    /\ pc = "advance"
    /\ HasOp(trace, "read_block_scalar_data")
    /\ HasOp(trace, "write_block_scalar_data")
    /\ EvOf(trace, "write_block_scalar_data").arg.values[3] # 0
    /\ EvOf(trace, "write_block_scalar_data").arg.values[3] # lhs[3]


(* ------------------- claims on the averaging closure ------------------- *)

\* fluxdofs has been called
Applied == pc = "fluxdofs" /\ fx.out # Unbound

\* the argument of the last call is the nodal contribution of the uniform
\* flux field c over an interface where every dof has area
Uniform(c) ==
    /\ Applied
    /\ \A i \in Dofs : /\ fx.interfaceareas[i] > 0
                       /\ fx.v[i] = c * fx.interfaceareas[i]

RECURSIVE IsPow2(_)
IsPow2(a) == a = 1 \/ (a > 1 /\ a % 2 = 0 /\ IsPow2(a \div 2))

\* x is q or one of its two neighbours in float64
Within1Ulp(x, q) ==
    IF q.cls = "num" THEN x \in {Pred(q), q, Succ(q)} ELSE x = q

\* C12 as stated: for a uniform input flux field over a full-area interface
\* every output value of the averaging projector equals the input value
\* exactly.
C12_AsStated ==
    \A c \in 1..MaxFlux :
        Uniform(c) => \A i \in Dofs : fx.out[i] = FromInt(c)

\* C12: for a uniform input flux field over a full-area interface every
\* output value of the averaging projector is the input value or a float64
\* next to it, and it is the input value exactly at every dof whose area is
\* a power of two.
C12_Conserved ==
    \A c \in 1..MaxFlux :
        Uniform(c) =>
            \A i \in Dofs :
                /\ Within1Ulp(fx.out[i], FromInt(c))
                /\ IsPow2(fx.interfaceareas[i]) => fx.out[i] = FromInt(c)

\* a uniform field that came back exact at one dof and rounded at another
C12_Witness ==
    \E c \in 1..MaxFlux :
        /\ Uniform(c)
        /\ \E i, j \in Dofs :
             /\ IsPow2(fx.interfaceareas[i]) /\ fx.out[i] = FromInt(c)
             /\ fx.out[j] # FromInt(c)

\* C17: under area-weighted averaging every output entry of a dof with
\* area zero is zero and no division by zero is made; every other output
\* entry is v[i] divided by the area of i, as float64 computes v[i] times
\* the reciprocal: the quotient or a float64 next to it, the quotient
\* itself where the area is a power of two; the areas and their reciprocals
\* are those computed before the first exchange.
C17_State ==
    Applied =>
        \A i \in Dofs :
            /\ fx.out[i].cls \in {"zero", "num"}
            /\ IF fx.interfaceareas[i] = 0
               THEN fx.out[i] = Zero
               ELSE /\ Within1Ulp(fx.out[i],
                                  FlDiv(fx.v[i], fx.interfaceareas[i]))
                    /\ IsPow2(fx.interfaceareas[i]) =>
                         fx.out[i] = FlDiv(fx.v[i], fx.interfaceareas[i])

C17_Frame ==
    /\ fx'.interfaceareas = fx.interfaceareas
    /\ fx'.normalize = fx.normalize

C17_Averaging == [](C17_State) /\ [][C17_Frame]_vars

\* a call with a nonzero entry at a dof without area and an entry that its
\* area does not divide
C17_Witness ==
    /\ Applied
    /\ \E i, j \in Dofs :
         /\ fx.interfaceareas[i] = 0 /\ fx.v[i] > 0 /\ fx.out[i] = Zero
         /\ fx.interfaceareas[j] > 1
         /\ fx.v[j] % fx.interfaceareas[j] # 0
         /\ fx.out[j].cls = "num"


\* C8: the run terminates cooperatively. The loop body is entered only when
\* is_coupling_ongoing() is true; once the channel reports coupling no
\* longer ongoing the controller reaches Finalized, calls finalize() exactly
\* once and makes no read, write, advance, action or solve call afterwards;
\* and every run of the loop in which the coordinator allows finitely many
\* iterations and no solve fails eventually reaches Finalized.
C8_Cooperative ==
    /\ [](C8_Safe)
    /\ [][C8_Quiet]_vars
    /\ (pc = "finalize") ~> (chan = "finalized")
    /\ (chan = "initialized") ~> (chan = "finalized" \/ Failed)

====
